---- MODULE Spec2Model ----
(***************************************************************************)
(* A model of readwise_to_markdown.py: the paginated fetch, the filtering   *)
(* of fetched records, the optional highlight fetch, the per-document      *)
(* files with their slug-collision numbering, the indexes and the writes.  *)
(*                                                                         *)
(* Python values are tagged records: Absent is a key that is missing from  *)
(* a JSON object, None is a JSON null, S(s) is a string held as a sequence *)
(* of one-character strings (<<>> is ""), N(n) is a number.                *)
(***************************************************************************)
EXTENDS Integers, Sequences, FiniteSets, TLC

Absent == [t |-> "absent"]
None == [t |-> "None"]
S(s) == [t |-> "str", v |-> s]
N(n) == [t |-> "int", v |-> n]

\* dict.get(key, default): the default only replaces a missing key.
Get(x, default) == IF x.t = "absent" THEN default ELSE x

\* Python truthiness of a value: None, "" and 0 are falsy.
Truthy(x) ==
    CASE x.t = "str" -> x.v # <<>>
      [] x.t = "int" -> x.v # 0
      [] OTHER -> FALSE

\* Python's `x or default`.
Or(x, default) == IF Truthy(x) THEN x ELSE default

----------------------------------------------------------------------------
(* LOCATIONS, lines 29-33: the sections in dict order and their raw
   locations. *)
SectionNames == <<"queue", "archive", "feed">>

LOCATIONS ==
    [queue |-> <<"new", "later", "shortlist">>,
     archive |-> <<"archive">>,
     feed |-> <<"feed">>]

Range(s) == {s[i] : i \in 1..Len(s)}

\* The (section, location) pairs in the order main's nested loops visit them.
FetchOrder ==
    LOCATIONS.queue \o LOCATIONS.archive \o LOCATIONS.feed

\* `d.get("location") in LOCATIONS[section]`
InSection(d, section) ==
    /\ d.location.t = "str"
    /\ d.location.v \in Range(LOCATIONS[section])

----------------------------------------------------------------------------
(* slugify, lines 89-95, over one-character strings. *)
max_len == 80

LowerOf ==
    [c \in {"A", "F", "U"} |->
        CASE c = "A" -> "a" [] c = "F" -> "f" [] c = "U" -> "u"]

Lower(c) == IF c \in DOMAIN LowerOf THEN LowerOf[c] ELSE c

IsSpace(c) == c = " "

IsWord(c) ==
    c \in {"a", "d", "e", "f", "i", "l", "n", "t", "u", "A", "F", "U",
           "0", "1", "2", "3", "4", "5", "6", "7", "8", "9", "_"}

\* The character classes of slugify's patterns: \s, [\s_], - and [\w\s-].
InClass(c, cls) ==
    CASE cls = "space" -> IsSpace(c)
      [] cls = "sep" -> IsSpace(c) \/ c = "_"
      [] cls = "hyphen" -> c = "-"
      [] cls = "slug" -> IsWord(c) \/ IsSpace(c) \/ c = "-"

RECURSIVE LStrip(_, _)
LStrip(s, cls) ==
    IF s # <<>> /\ InClass(Head(s), cls) THEN LStrip(Tail(s), cls) ELSE s

RECURSIVE RStrip(_, _)
RStrip(s, cls) ==
    IF s # <<>> /\ InClass(s[Len(s)], cls)
    THEN RStrip(SubSeq(s, 1, Len(s) - 1), cls)
    ELSE s

Strip(s, cls) == RStrip(LStrip(s, cls), cls)

\* re.sub(cls+, "-", s): every maximal run of cls characters becomes "-".
\* A run is kept at its first character, which becomes the hyphen.
SubRuns(s, cls) ==
    LET StartsOrOutside(i) ==
            \/ ~InClass(s[i], cls)
            \/ i = 1
            \/ ~InClass(s[i - 1], cls)
        kept == SelectSeq([i \in 1..Len(s) |-> i], StartsOrOutside)
    IN  [k \in 1..Len(kept) |->
            IF InClass(s[kept[k]], cls) THEN "-" ELSE s[kept[k]]]

KeepSlugChars(s) == SelectSeq(s, LAMBDA c : InClass(c, "slug"))

Untitled == <<"U", "n", "t", "i", "t", "l", "e", "d">>

slugify(text) ==
    LET lowered == Strip([i \in 1..Len(text) |-> Lower(text[i])], "space")
        kept == KeepSlugChars(lowered)
        dashed == SubRuns(kept, "sep")
        joined == Strip(SubRuns(dashed, "hyphen"), "hyphen")
    IN  IF joined # <<>>
        THEN SubSeq(joined, 1, IF Len(joined) < max_len THEN Len(joined) ELSE max_len)
        ELSE <<"u", "n", "t", "i", "t", "l", "e", "d">>

\* The decimal digits of a counter, as f"{n}" prints them.
RECURSIVE Decimal(_)
Decimal(n) ==
    LET digit == <<"0", "1", "2", "3", "4", "5", "6", "7", "8", "9">>
    IN  IF n < 10 THEN <<digit[n + 1]>>
        ELSE Decimal(n \div 10) \o <<digit[(n % 10) + 1]>>

----------------------------------------------------------------------------
(* format_date, lines 98-106.  A timestamp string is held as <<day, time>>
   and the YYYY-MM-DD string of a day as <<day>>; "" is <<>>. *)
format_date(date_str) ==
    IF ~Truthy(date_str) THEN None
    ELSE S(SubSeq(date_str.v, 1, 1))

----------------------------------------------------------------------------
(* The records the API returns.  id and category are always present; every
   other field is Absent, None or a value. *)
Doc(id, location, parent_id, category, title, saved_at, rest) ==
    [id |-> id, location |-> location, parent_id |-> parent_id,
     category |-> category, title |-> title, saved_at |-> saved_at,
     author |-> rest, source_url |-> rest, site_name |-> rest,
     word_count |-> IF rest.t = "str" THEN N(1) ELSE rest,
     reading_time |-> rest,
     reading_progress |-> IF rest.t = "str" THEN N(1) ELSE rest,
     summary |-> rest, notes |-> rest,
     tags |-> IF rest.t = "str" THEN [t |-> "dict", v |-> {"x"}] ELSE rest,
     published_date |-> IF rest.t = "str" THEN S(<<1, 0>>) ELSE rest,
     _highlights |-> Absent]

\* A response body of the list endpoint.
Page(results, nextPageCursor) ==
    [results |-> results, nextPageCursor |-> nextPageCursor]

\* The opaque cursor the server hands out with page k: it names page k + 1.
CursorAfter(k) == S(<<"c", k>>)

RECURSIVE Concat(_)
Concat(pages) ==
    IF pages = <<>> THEN <<>>
    ELSE Head(pages).results \o Concat(Tail(pages))

\* The page the server sends for a request's params.
ServedPage(pages, params) ==
    IF params.pageCursor.t = "absent" THEN pages[1]
    ELSE pages[params.pageCursor.v[2] + 1]

----------------------------------------------------------------------------
(* document_to_file, lines 119-210. *)
TitleOf(doc) == Or(Get(doc.title, S(Untitled)), S(Untitled))

document_to_file(doc) ==
    LET tags == Get(doc.tags, [t |-> "dict", v |-> {}])
    IN  [id |-> doc.id,
         title |-> TitleOf(doc),
         author |-> Or(Get(doc.author, None), S(<<>>)),
         url |-> Or(Get(doc.source_url, S(<<>>)), S(<<>>)),
         site |-> Or(Get(doc.site_name, None), S(<<>>)),
         category |-> doc.category,
         location |-> Get(doc.location, S(<<>>)),
         word_count |-> Or(Get(doc.word_count, None), N(0)),
         reading_time |-> Or(Get(doc.reading_time, None), S(<<>>)),
         reading_progress |-> Or(Get(doc.reading_progress, None), N(0)),
         summary |-> Or(Get(doc.summary, None), S(<<>>)),
         notes |-> Or(Get(doc.notes, None), S(<<>>)),
         saved_at |-> format_date(Get(doc.saved_at, None)),
         published |-> format_date(Get(doc.published_date, None)),
         tags |-> IF tags.t = "dict" THEN tags.v ELSE {},
         highlights |-> Get(doc._highlights, [t |-> "list", v |-> <<>>]).v]

\* The operations of document_to_file that need a string (len, slicing) or a
\* number raise TypeError on None.
document_to_file_raises(doc) ==
    LET r == document_to_file(doc)
    IN  \/ r.url.t # "str"
        \/ r.title.t # "str"

----------------------------------------------------------------------------
(* sorted(..., key=lambda d: d.get("saved_at", ""), reverse=True), lines 249
   and 300. *)
SavedKey(doc) == Get(doc.saved_at, S(<<>>))

\* Comparing None with anything raises TypeError; a list of at most one
\* element is never compared.
SortRaises(docs) ==
    /\ Len(docs) >= 2
    /\ \E i \in 1..Len(docs) : SavedKey(docs[i]).t # "str"

RECURSIVE LexLess(_, _)
LexLess(a, b) ==
    IF b = <<>> THEN FALSE
    ELSE IF a = <<>> THEN TRUE
    ELSE IF Head(a) # Head(b) THEN Head(a) < Head(b)
    ELSE LexLess(Tail(a), Tail(b))

\* x goes before the first element whose key is smaller: descending and stable.
RECURSIVE InsertDesc(_, _)
InsertDesc(sorted, x) ==
    IF sorted = <<>> THEN <<x>>
    ELSE IF LexLess(SavedKey(Head(sorted)).v, SavedKey(x).v)
         THEN <<x>> \o sorted
         ELSE <<Head(sorted)>> \o InsertDesc(Tail(sorted), x)

RECURSIVE SortBySavedDesc(_)
SortBySavedDesc(docs) ==
    IF docs = <<>> THEN <<>>
    ELSE InsertDesc(SortBySavedDesc(SubSeq(docs, 1, Len(docs) - 1)), docs[Len(docs)])

----------------------------------------------------------------------------
(* generate_index, lines 213-269. *)
FileName(slug) == slug \o <<".md">>

\* Lines 261-263: the section and the link target of a document's row.
IndexSection(doc) ==
    IF InSection(doc, "queue") THEN "queue"
    ELSE IF InSection(doc, "archive") THEN "archive"
    ELSE "feed"

IndexLink(doc) == <<IndexSection(doc), FileName(slugify(TitleOf(doc).v))>>

RECURSIVE TotalWords(_)
TotalWords(docs) ==
    IF docs = <<>> THEN 0
    ELSE Or(Get(Head(docs).word_count, N(0)), N(0)).v + TotalWords(Tail(docs))

generate_index_raises(docs) == SortRaises(docs)

generate_index(docs) ==
    LET sorted == SortBySavedDesc(docs)
    IN  [queue |-> Len(SelectSeq(docs, LAMBDA d : InSection(d, "queue"))),
         archive |-> Len(SelectSeq(docs, LAMBDA d : InSection(d, "archive"))),
         feed |-> Len(SelectSeq(docs, LAMBDA d : InSection(d, "feed"))),
         total |-> Len(docs),
         total_words |-> TotalWords(docs),
         rows |-> [i \in 1..Len(sorted) |->
                     [title |-> TitleOf(sorted[i]),
                      link |-> IndexLink(sorted[i])]]]

----------------------------------------------------------------------------
(* generate_section_index, lines 272-312. *)
\* The categories of the model in sorted() order.
CategoryOrder == <<"article", "pdf">>

CategoryDocs(docs, cat) == SelectSeq(docs, LAMBDA d : d.category = cat)

\* Lines 304-309: the link target of a document's entry.
SectionLink(doc) == FileName(slugify(TitleOf(doc).v))

generate_section_index_raises(docs) ==
    \E k \in 1..Len(CategoryOrder) : SortRaises(CategoryDocs(docs, CategoryOrder[k]))

generate_section_index(docs) ==
    [count |-> Len(docs),
     groups |-> [k \in 1..Len(CategoryOrder) |->
                  LET sorted == SortBySavedDesc(CategoryDocs(docs, CategoryOrder[k]))
                  IN  [i \in 1..Len(sorted) |->
                         [title |-> TitleOf(sorted[i]),
                          link |-> SectionLink(sorted[i]),
                          saved |-> Or(format_date(Get(sorted[i].saved_at, None)), S(<<>>))]]]]

----------------------------------------------------------------------------
VARIABLES
    args,        \* token, with_highlights, categories, dir_exists
    api,         \* what the service holds: list pages per location, highlight pages per id
    pc,          \* where main is
    li,          \* index into FetchOrder of the location being fetched
    params,      \* fetch_all_documents: the request parameters
    documents,   \* fetch_all_documents: the accumulator
    cursor,      \* fetch_all_documents: the cursor
    all_docs,    \* main: the top-level documents
    hi,          \* main: index of the document whose highlights are fetched next
    sections,    \* main: per section, the documents as indices into all_docs
    used_slugs,  \* main: <<section, slug>> -> counter
    si,          \* main: index into SectionNames of the section being written
    di,          \* main: index into the section's documents
    dirs,        \* the directories that exist, relative to output_dir ("" is output_dir)
    files,       \* <<dir, name>> -> content
    exit_code,   \* -1 while running
    error,       \* the exception that ended the run, "" if none
    log,         \* history: requests with their status, and the phases' events
    doc_file     \* history: index into all_docs -> the path written for it

vars ==
    <<args, api, pc, li, params, documents, cursor, all_docs, hi, sections,
      used_slugs, si, di, dirs, files, exit_code, error, log, doc_file>>

NoSections == [s \in Range(SectionNames) |-> <<>>]

----------------------------------------------------------------------------
(* The runs that are checked: what the service holds and how the program is
   called.  Each family varies one part of the input and keeps the rest
   plain. *)
MaxPages == 2
MaxPageLen == 2
MaxLib == 2
MaxTitled == 3
MaxShaped == 2
MaxHlPages == 2

SeqsUpTo(set, n) == UNION {[1..k -> set] : k \in 0..n}

Args(token, with_highlights, categories, dir_exists) ==
    [token |-> token, with_highlights |-> with_highlights,
     categories |-> categories, dir_exists |-> dir_exists]

PlainArgs == Args(TRUE, FALSE, None, FALSE)

KnownLocations == Range(FetchOrder)

\* The filter a record is served under: its own location, when the program
\* asks for it.
ServedUnder(d) ==
    IF d.location.t = "str" /\ d.location.v \in KnownLocations
    THEN d.location.v
    ELSE "new"

\* The service holding the records of lib, one page per location.
OnePageEach(lib) ==
    [l \in KnownLocations |->
        <<Page(SelectSeq(lib, LAMBDA d : ServedUnder(d) = l), Absent)>>]

\* The page sequence with these results, chained by cursors and ended by last.
Chain(results, last) ==
    [k \in 1..Len(results) |->
        Page(results[k], IF k < Len(results) THEN CursorAfter(k) ELSE last)]

PlainDoc(id, location) ==
    Doc(id, S(location), None, IF id = 2 THEN "pdf" ELSE "article",
        S(<<"a", Decimal(id)[1]>>), S(<<id, 0>>), S(<<"x">>))

\* The sum of the first k lengths.
RECURSIVE SumTo(_, _)
SumTo(lens, k) == IF k = 0 THEN 0 ELSE lens[k] + SumTo(lens, k - 1)

\* Pages of these lengths: the records numbered through, or all the same one.
PagesOfLengths(lens, same) ==
    [k \in 1..Len(lens) |->
        [j \in 1..lens[k] |->
            PlainDoc(IF same THEN 1 ELSE SumTo(lens, k - 1) + j, "new")]]

\* Pagination: the pages of one location, of any lengths, ended by a cursor
\* that is missing, null or empty.
PaginationRuns ==
    {[args |-> PlainArgs,
      api |-> [list |-> [OnePageEach(<<>>) EXCEPT
                            !["new"] = Chain(PagesOfLengths(lens, same), last)],
               hl |-> <<>>]] :
        lens \in UNION {[1..k -> 0..MaxPageLen] : k \in 1..MaxPages},
        same \in BOOLEAN,
        last \in {Absent, None, S(<<>>)}}

\* The sequences of at most n indices into 1..size that do not decrease: one
\* per multiset.
Picks(size, n) ==
    {s \in SeqsUpTo(1..size, n) : \A i \in 1..(Len(s) - 1) : s[i] <= s[i + 1]}

\* Classification: records of every location, with and without a parent and
\* of two categories, with and without --categories.
ClassVariants ==
    <<[parent_id |-> None, category |-> "article"],
      [parent_id |-> None, category |-> "pdf"],
      [parent_id |-> N(9), category |-> "article"]>>

ClassLocations == FetchOrder \o <<"weird">>

ClassDoc(n) ==
    IF n = 0
    THEN Doc(0, S("later"), Absent, "article", S(<<"F">>), S(<<1, 0>>), S(<<"x">>))
    ELSE LET loc == ClassLocations[((n - 1) % Len(ClassLocations)) + 1]
             var == ClassVariants[((n - 1) \div Len(ClassLocations)) + 1]
         IN  Doc(n, S(loc), var.parent_id, var.category, S(<<"F">>),
                 S(<<1, 0>>), S(<<"x">>))

ClassLibs ==
    {[i \in 1..Len(s) |-> ClassDoc(s[i] - 1)] :
        s \in Picks(Len(ClassLocations) * Len(ClassVariants) + 1, MaxLib)}

ClassificationRuns ==
    {[args |-> Args(TRUE, FALSE, categories, FALSE),
      api |-> [list |-> OnePageEach(lib), hl |-> <<>>]] :
        lib \in ClassLibs,
        categories \in {None, [t |-> "list", v |-> {"article"}]}}

\* Slugs: titles that share a slug, a title whose slug is another's slug with
\* a counter, a title without any slug character.
Titles == {S(<<"F">>), S(<<"f", " ", "1">>), S(<<"?">>)}

TitledDocs ==
    {Doc(1, S(location), None, "article", title, S(<<1, 0>>), S(<<"x">>)) :
        location \in {"new", "archive"}, title \in Titles}

SlugRuns ==
    {[args |-> PlainArgs, api |-> [list |-> OnePageEach(lib), hl |-> <<>>]] :
        lib \in SeqsUpTo(TitledDocs, MaxTitled)}

\* Titles longer than max_len.
LongTitle(n) == S([i \in 1..n |-> "a"])

TruncationRuns ==
    {[args |-> PlainArgs, api |-> [list |-> OnePageEach(lib), hl |-> <<>>]] :
        lib \in [1..2 -> {Doc(1, S("new"), None, "article", LongTitle(n),
                              S(<<1, 0>>), S(<<"x">>)) :
                             n \in {max_len, max_len + 1}}]}

\* Shapes: the optional fields present, null or missing.
FieldShapes == <<S(<<"x">>), None, Absent>>

ShapedDoc(n) ==
    LET saved_at == FieldShapes[((n - 1) % 3) + 1]
        rest == FieldShapes[(((n - 1) \div 3) % 3) + 1]
    IN  Doc(n, S(IF n > 9 THEN "archive" ELSE "new"), None, "article",
            IF rest.t = "str" THEN S(<<"F">>) ELSE rest,
            IF saved_at.t = "str" THEN S(<<n, 0>>) ELSE saved_at,
            rest)

ShapeRuns ==
    {[args |-> PlainArgs,
      api |-> [list |-> OnePageEach([i \in 1..Len(s) |-> ShapedDoc(s[i])]),
               hl |-> <<>>]] :
        s \in Picks(12, MaxShaped)}

\* Highlights: per document, any number of pages of highlights.
Highlight(id, k) == [id |-> 10 * id + k, content |-> S(<<"h">>), notes |-> Absent]

HighlightChain(id, n) ==
    IF n = 0 THEN <<Page(<<>>, Absent)>>
    ELSE [k \in 1..n |->
             Page(<<Highlight(id, k)>>, IF k < n THEN CursorAfter(k) ELSE None)]

HighlightRuns ==
    {[args |-> Args(TRUE, with_highlights, None, FALSE),
      api |-> [list |-> OnePageEach(lib),
               hl |-> [id \in 1..2 |-> HighlightChain(id, n[id])]]] :
        with_highlights \in BOOLEAN,
        lib \in SeqsUpTo({PlainDoc(1, "new"), PlainDoc(2, "archive")}, 2) \ {<<>>},
        n \in [1..2 -> 0..MaxHlPages]}

\* An output directory that exists already, a missing token, and --categories
\* without any category.
OtherRuns ==
    {[args |-> Args(token, FALSE, [t |-> "list", v |-> {}], dir_exists),
      api |-> [list |-> OnePageEach(lib), hl |-> <<>>]] :
        token \in BOOLEAN, dir_exists \in BOOLEAN,
        lib \in SeqsUpTo({PlainDoc(1, "new"), PlainDoc(2, "weird")}, 1)}

Runs ==
    PaginationRuns \cup ClassificationRuns \cup SlugRuns \cup TruncationRuns
        \cup ShapeRuns \cup HighlightRuns \cup OtherRuns

Init ==
    /\ \E run \in Runs :
          /\ args = run.args
          /\ api = run.api
    /\ pc = "start"
    /\ li = 1
    /\ params = [location |-> Absent, pageCursor |-> Absent]
    /\ documents = <<>>
    /\ cursor = None
    /\ all_docs = <<>>
    /\ hi = 1
    /\ sections = NoSections
    /\ used_slugs = <<>>
    /\ si = 1
    /\ di = 1
    /\ dirs = IF args.dir_exists THEN {""} ELSE {}
    /\ files = <<>>
    /\ exit_code = -1
    /\ error = ""
    /\ log = <<>>
    /\ doc_file = <<>>

----------------------------------------------------------------------------
\* An uncaught exception ends the process with a traceback and status 1.
Crash(name) ==
    /\ pc' = "crashed"
    /\ error' = name
    /\ exit_code' = 1

\* Path.write_text and open(..., "w"): the directory must exist.
CanWrite(dir) == dir \in dirs

WriteFile(fs, path, content) ==
    [p \in DOMAIN fs \cup {path} |-> IF p = path THEN content ELSE fs[p]]

(* fetch_all_documents, lines 59-68: the call with location = l. *)
EnterFetch(l) ==
    /\ documents' = <<>>
    /\ params' = [location |-> S(l), pageCursor |-> Absent]
    /\ cursor' = None

(* get_token, lines 36-42, and main up to the first call of
   fetch_all_documents, lines 335-344. *)
GetToken ==
    /\ pc = "start"
    /\ IF args.token
       THEN /\ pc' = "request"
            /\ EnterFetch(FetchOrder[li])
            /\ UNCHANGED exit_code
       ELSE /\ pc' = "exited"
            /\ exit_code' = 1
            /\ UNCHANGED <<params, documents, cursor>>
    /\ UNCHANGED <<args, api, li, all_docs, hi, sections, used_slugs, si, di,
                   dirs, files, error, log, doc_file>>

\* Lines 70-71: the parameters of the next request.
NextParams == IF Truthy(cursor) THEN [params EXCEPT !.pageCursor = cursor] ELSE params

\* Line 74 without the cursor: the loop leaves after the first page.
NextCursorDropped(data) == None

\* Line 74.
NextCursor(data) == Get(data.nextPageCursor, None)

RequestEvent(kind, key, pageCursor, status) ==
    [e |-> "request", kind |-> kind, key |-> key, pageCursor |-> pageCursor,
     status |-> status]

(* fetch_all_documents, lines 69-77: one turn of the loop, the response being
   a 2xx. *)
FetchPage ==
    /\ pc = "request"
    /\ LET data == ServedPage(api.list[FetchOrder[li]], NextParams)
       IN  /\ params' = NextParams
           /\ documents' = documents \o data.results
           /\ cursor' = NextCursor(data)
           /\ pc' = IF Truthy(NextCursor(data)) THEN "request" ELSE "classify"
           /\ log' = Append(log, RequestEvent("list", NextParams.location.v,
                                               NextParams.pageCursor, 200))
    /\ UNCHANGED <<args, api, li, all_docs, hi, sections, used_slugs, si, di,
                   dirs, files, exit_code, error, doc_file>>

\* The request main is about to make, if it is about to make one.
PendingRequest ==
    CASE pc = "request" ->
            <<RequestEvent("list", NextParams.location.v, NextParams.pageCursor, 500)>>
      [] pc = "highlights" ->
            <<RequestEvent("highlights", all_docs[hi].id, Absent, 500)>>
      [] OTHER -> <<>>

\* api_request without sys.exit: the error is reported and the request retried.
ApiErrorRetried ==
    /\ PendingRequest # <<>>
    /\ log' = log \o PendingRequest
    /\ UNCHANGED <<args, api, pc, li, params, documents, cursor, all_docs, hi,
                   sections, used_slugs, si, di, dirs, files, exit_code, error,
                   doc_file>>

(* api_request, lines 51-56: a non-2xx response raises HTTPError, which is
   reported and ends the process with status 1. *)
ApiError ==
    /\ PendingRequest # <<>>
    /\ log' = log \o PendingRequest
    /\ pc' = "exited"
    /\ exit_code' = 1
    /\ UNCHANGED <<args, api, li, params, documents, cursor, all_docs, hi,
                   sections, used_slugs, si, di, dirs, files, error, doc_file>>

\* Line 346: the optional category allow-list.
CategoryAllowed(d) ==
    IF args.categories.t = "list" /\ args.categories.v # {}
    THEN d.category \in args.categories.v
    ELSE TRUE

\* Line 347 left out: children are kept.
IsTopLevelAlways(d) == TRUE

\* Line 347: d.get("parent_id") is None.
IsTopLevel(d) == Get(d.parent_id, None).t = "None"

\* Where main goes once every location is fetched: the highlight loop runs
\* only with --with-highlights and at least one document.
AfterFetch(docs) ==
    IF args.with_highlights /\ docs # <<>> THEN "highlights" ELSE "sections"

(* main, lines 341-349: fetch_all_documents has returned; its records are
   filtered and the next location's fetch is entered. *)
Classify ==
    /\ pc = "classify"
    /\ LET docs == SelectSeq(SelectSeq(documents, CategoryAllowed), IsTopLevel)
       IN  /\ all_docs' = all_docs \o docs
           /\ IF li < Len(FetchOrder)
              THEN /\ li' = li + 1
                   /\ pc' = "request"
                   /\ EnterFetch(FetchOrder[li + 1])
              ELSE /\ li' = li
                   /\ pc' = AfterFetch(all_docs \o docs)
                   /\ UNCHANGED <<params, documents, cursor>>
    /\ log' = Append(log, [e |-> "classify", key |-> FetchOrder[li]])
    /\ UNCHANGED <<args, api, hi, sections, used_slugs, si, di, dirs, files,
                   exit_code, error, doc_file>>

\* What the service holds as highlights of a document.
HighlightPages(id) ==
    IF id \in DOMAIN api.hl THEN api.hl[id] ELSE <<Page(<<>>, Absent)>>

(* fetch_highlights, lines 82-86. *)
fetch_highlights(doc_id) == HighlightPages(doc_id)[1].results

\* The highlight loop leaving after its first turn.
AfterHighlightFirst == "sections"

\* The highlight loop moves on to the next document or leaves.
AfterHighlight == IF hi < Len(all_docs) THEN "highlights" ELSE "sections"

(* main, lines 356-360: one turn of the highlight loop, the response being a
   2xx. *)
FetchHighlights ==
    /\ pc = "highlights"
    /\ all_docs' = [all_docs EXCEPT ![hi]._highlights =
                       [t |-> "list", v |-> fetch_highlights(all_docs[hi].id)]]
    /\ log' = Append(log, RequestEvent("highlights", all_docs[hi].id, Absent, 200))
    /\ hi' = hi + 1
    /\ pc' = AfterHighlight
    /\ UNCHANGED <<args, api, li, params, documents, cursor, sections,
                   used_slugs, si, di, dirs, files, exit_code, error, doc_file>>

\* The indices of the documents of all_docs that a section holds.
SectionDocs(section) ==
    LET Pick(i) == InSection(all_docs[i], section)
    IN  SelectSeq([i \in 1..Len(all_docs) |-> i], Pick)

(* main, lines 365-387. *)
BuildSections ==
    /\ pc = "sections"
    /\ sections' = [s \in Range(SectionNames) |-> SectionDocs(s)]
    /\ used_slugs' = <<>>
    /\ si' = 1
    /\ pc' = "section"
    /\ log' = Append(log, [e |-> "sections"])
    /\ UNCHANGED <<args, api, li, params, documents, cursor, all_docs, hi, di,
                   dirs, files, exit_code, error, doc_file>>

\* The section loop moves on to the next section or leaves.
AfterSection == IF si < Len(SectionNames) THEN "section" ELSE "top_index"

(* main, lines 389-392: a section without documents is skipped. *)
SkipSection ==
    /\ pc = "section"
    /\ sections[SectionNames[si]] = <<>>
    /\ si' = IF si < Len(SectionNames) THEN si + 1 ELSE si
    /\ pc' = AfterSection
    /\ UNCHANGED <<args, api, li, params, documents, cursor, all_docs, hi,
                   sections, used_slugs, di, dirs, files, exit_code, error,
                   log, doc_file>>

(* main, lines 394-395: mkdir(parents=True, exist_ok=True). *)
MakeSectionDir ==
    /\ pc = "section"
    /\ sections[SectionNames[si]] # <<>>
    /\ dirs' = dirs \cup {"", SectionNames[si]}
    /\ di' = 1
    /\ pc' = "doc"
    /\ log' = Append(log, [e |-> "mkdir", key |-> SectionNames[si]])
    /\ UNCHANGED <<args, api, li, params, documents, cursor, all_docs, hi,
                   sections, used_slugs, si, files, exit_code, error, doc_file>>

\* Line 403 without the section: one counter per slug for all sections.
SlugKeyGlobal(section_name, slug) == <<"", slug>>

\* Line 403: the key of the collision counter.
SlugKey(section_name, slug) == <<section_name, slug>>

\* Lines 404-408: the slug the file gets.
FinalSlug(key, slug) ==
    IF key \in DOMAIN used_slugs
    THEN slug \o <<"-">> \o Decimal(used_slugs[key] + 1)
    ELSE slug

(* main, lines 398-411: one turn of the document loop. *)
WriteDocument ==
    /\ pc = "doc"
    /\ LET section_name == SectionNames[si]
           i == sections[section_name][di]
           doc == all_docs[i]
           slug == slugify(TitleOf(doc).v)
           key == SlugKey(section_name, slug)
           path == <<section_name, FileName(FinalSlug(key, slug))>>
       IN  /\ used_slugs' =
                  [k \in DOMAIN used_slugs \cup {key} |->
                     IF k # key THEN used_slugs[k]
                     ELSE IF key \in DOMAIN used_slugs THEN used_slugs[key] + 1
                     ELSE 0]
           /\ IF document_to_file_raises(doc)
              THEN /\ Crash("TypeError")
                   /\ UNCHANGED <<files, log, doc_file, di>>
              ELSE IF ~CanWrite(section_name)
              THEN /\ Crash("FileNotFoundError")
                   /\ log' = Append(log, [e |-> "render", key |-> path])
                   /\ UNCHANGED <<files, doc_file, di>>
              ELSE /\ files' = WriteFile(files, path, document_to_file(doc))
                   /\ log' = log \o <<[e |-> "render", key |-> path],
                                      [e |-> "write", key |-> path]>>
                   /\ doc_file' = [j \in DOMAIN doc_file \cup {i} |->
                                     IF j = i THEN path ELSE doc_file[j]]
                   /\ di' = IF di < Len(sections[section_name]) THEN di + 1 ELSE di
                   /\ pc' = IF di < Len(sections[section_name]) THEN "doc"
                            ELSE "section_index"
                   /\ UNCHANGED <<exit_code, error>>
    /\ UNCHANGED <<args, api, li, params, documents, cursor, all_docs, hi,
                   sections, si, dirs>>

\* The documents a list of indices refers to.
Deref(indices) == [k \in 1..Len(indices) |-> all_docs[indices[k]]]

(* main, lines 413-418. *)
WriteSectionIndex ==
    /\ pc = "section_index"
    /\ LET section_name == SectionNames[si]
           docs == Deref(sections[section_name])
           path == <<section_name, <<"README.md">>>>
       IN  IF generate_section_index_raises(docs)
           THEN /\ Crash("TypeError")
                /\ UNCHANGED <<files, log, si>>
           ELSE IF ~CanWrite(section_name)
           THEN /\ Crash("FileNotFoundError")
                /\ log' = Append(log, [e |-> "render", key |-> path])
                /\ UNCHANGED <<files, si>>
           ELSE /\ files' = WriteFile(files, path, generate_section_index(docs))
                /\ log' = log \o <<[e |-> "render", key |-> path],
                                   [e |-> "write", key |-> path]>>
                /\ si' = IF si < Len(SectionNames) THEN si + 1 ELSE si
                /\ pc' = AfterSection
                /\ UNCHANGED <<exit_code, error>>
    /\ UNCHANGED <<args, api, li, params, documents, cursor, all_docs, hi,
                   sections, used_slugs, di, dirs, doc_file>>

(* main, lines 420-423. *)
WriteTopIndex ==
    /\ pc = "top_index"
    /\ LET path == <<"", <<"README.md">>>>
       IN  IF generate_index_raises(all_docs)
           THEN /\ Crash("TypeError")
                /\ UNCHANGED <<files, log>>
           ELSE IF ~CanWrite("")
           THEN /\ Crash("FileNotFoundError")
                /\ log' = Append(log, [e |-> "render", key |-> path])
                /\ UNCHANGED files
           ELSE /\ files' = WriteFile(files, path, generate_index(all_docs))
                /\ log' = log \o <<[e |-> "render", key |-> path],
                                   [e |-> "write", key |-> path]>>
                /\ pc' = "data_json"
                /\ UNCHANGED <<exit_code, error>>
    /\ UNCHANGED <<args, api, li, params, documents, cursor, all_docs, hi,
                   sections, used_slugs, si, di, dirs, doc_file>>

(* main, lines 425-432: the raw backup, then the process ends with status 0. *)
WriteDataJson ==
    /\ pc = "data_json"
    /\ LET path == <<"", <<"data.json">>>>
       IN  IF ~CanWrite("")
           THEN /\ Crash("FileNotFoundError")
                /\ UNCHANGED <<files, log>>
           ELSE /\ files' = WriteFile(files, path, all_docs)
                /\ log' = Append(log, [e |-> "write", key |-> path])
                /\ pc' = "done"
                /\ exit_code' = 0
                /\ UNCHANGED error
    /\ UNCHANGED <<args, api, li, params, documents, cursor, all_docs, hi,
                   sections, used_slugs, si, di, dirs, doc_file>>

Next ==
    \/ GetToken
    \/ FetchPage
    \/ ApiError
    \/ Classify
    \/ FetchHighlights
    \/ BuildSections
    \/ SkipSection
    \/ MakeSectionDir
    \/ WriteDocument
    \/ WriteSectionIndex
    \/ WriteTopIndex
    \/ WriteDataJson

Spec == Init /\ [][Next]_vars
----------------------------------------------------------------------------
(* What the history shows. *)
IsRequest(ev) == ev.e = "request"

ListRequests(l) ==
    SelectSeq(log, LAMBDA ev : IsRequest(ev) /\ ev.kind = "list" /\ ev.key = l)

HighlightRequests ==
    SelectSeq(log, LAMBDA ev : IsRequest(ev) /\ ev.kind = "highlights")

SomeRequestFailed == \E k \in 1..Len(log) : IsRequest(log[k]) /\ log[k].status # 200

\* fetch_all_documents(location=l) has returned.
Returned(l) ==
    \/ pc = "classify" /\ FetchOrder[li] = l
    \/ \E k \in 1..Len(log) : log[k].e = "classify" /\ log[k].key = l

Ended == pc \in {"done", "crashed", "exited"}

InitialDirs == IF args.dir_exists THEN {""} ELSE {}

\* C1: fetch_all_documents asks for each page once, the first request without
\* a cursor and the k-th with the cursor page k-1 gave; while it runs it holds
\* the results of the pages asked for so far, in order; it returns the
\* results of all pages in page order, nothing dropped and nothing merged, and
\* asks for nothing after the last page.
C1_PaginationExact ==
    \A l \in KnownLocations :
        LET pages == api.list[l]
            reqs == ListRequests(l)
            ok == SelectSeq(reqs, LAMBDA ev : ev.status = 200)
        IN  /\ Len(ok) <= Len(pages)
            /\ \A k \in 1..Len(reqs) :
                   reqs[k].pageCursor =
                       IF k = 1 THEN Absent ELSE pages[k - 1].nextPageCursor
            /\ Returned(l) => Len(reqs) = Len(pages) /\ ok = reqs
            /\ pc = "classify" /\ FetchOrder[li] = l => documents = Concat(pages)
            /\ pc = "request" /\ FetchOrder[li] = l =>
                   documents = Concat(SubSeq(pages, 1, Len(reqs)))

\* C1's case: a fetch over several pages has returned several records.
C1_Witness ==
    /\ pc = "classify"
    /\ Len(api.list[FetchOrder[li]]) >= 2
    /\ Len(ListRequests(FetchOrder[li])) >= 2
    /\ Len(documents) >= 3
    /\ documents[1] # documents[Len(documents)]

\* C4: once a request got a non-2xx response, the process has ended with a
\* non-zero status, that request is the last one made, and nothing was
\* created or written.
C4_NoPartialFailure ==
    SomeRequestFailed =>
        /\ pc = "exited"
        /\ exit_code > 0
        /\ IsRequest(log[Len(log)]) /\ log[Len(log)].status # 200
        /\ \A k \in 1..(Len(log) - 1) : IsRequest(log[k]) => log[k].status = 200
        /\ dirs = InitialDirs
        /\ files = <<>>

\* C4's case: a highlight fetch failed after all documents were fetched and
\* an earlier highlight fetch succeeded.
C4_Witness ==
    /\ pc = "exited"
    /\ Len(HighlightRequests) >= 2
    /\ log[Len(log)].kind = "highlights"
    /\ log[Len(log)].status # 200

\* The section whose document list holds index i of all_docs.
SectionOf(i) == CHOOSE s \in Range(SectionNames) : i \in Range(sections[s])

BaseSlug(i) == slugify(TitleOf(all_docs[i]).v)

\* How many earlier documents of the same section have the same base slug.
EarlierSame(i) ==
    Cardinality({j \in Range(sections[SectionOf(i)]) :
                    j < i /\ BaseSlug(j) = BaseSlug(i)})

\* C8: a document is written to its section's folder, to s.md when it is the
\* first of its section with base slug s and to s-k.md when k earlier
\* documents of its section have base slug s; other sections do not count.
C8_CollisionNumbering ==
    \A i \in DOMAIN doc_file :
        /\ doc_file[i] \in DOMAIN files
        /\ doc_file[i] =
               <<SectionOf(i),
                 FileName(IF EarlierSame(i) = 0 THEN BaseSlug(i)
                          ELSE BaseSlug(i) \o <<"-">> \o Decimal(EarlierSame(i)))>>

\* C8's case: two documents of one section and one of another share a slug.
C8_Witness ==
    /\ pc = "done"
    /\ \E i, j, k \in DOMAIN doc_file :
          /\ doc_file[i] = <<"queue", <<"f", ".md">>>>
          /\ doc_file[j] = <<"queue", <<"f", "-", "1", ".md">>>>
          /\ doc_file[k] = <<"archive", <<"f", ".md">>>>
          /\ BaseSlug(i) = BaseSlug(j) /\ BaseSlug(j) = BaseSlug(k)
----------------------------------------------------------------------------
\* The sections are built.
Classified == \E k \in 1..Len(log) : log[k].e = "sections"

\* Every record the responses carried.
FetchedRecords == UNION {Range(Concat(api.list[l])) : l \in KnownLocations}

\* The record as the API sent it.
AsFetched(d) == [d EXCEPT !._highlights = Absent]

InBucket(r, s) ==
    \E k \in 1..Len(sections[s]) : AsFetched(all_docs[sections[s][k]]) = r

InTopLevel(r) == \E i \in 1..Len(all_docs) : AsFetched(all_docs[i]) = r

\* The bucket the specification gives a raw location.
BucketOfLocation(l) ==
    CASE l \in {"new", "later", "shortlist"} -> "queue"
      [] l = "archive" -> "archive"
      [] l = "feed" -> "feed"

HasParent(r) == r.parent_id.t \notin {"absent", "None"}

HasKnownLocation(r) == r.location.t = "str" /\ r.location.v \in KnownLocations

OnlyInItsBucket(r) ==
    \A s \in Range(SectionNames) :
        InBucket(r, s) <=> s = BucketOfLocation(r.location.v)

NoChildKept ==
    \A r \in FetchedRecords :
        HasParent(r) =>
            /\ ~InTopLevel(r)
            /\ \A s \in Range(SectionNames) : ~InBucket(r, s)

\* C2 as stated: once the sections are built, every fetched record without a
\* parent and with a known location is in the bucket of its location and in
\* no other, and no record with a parent is in a bucket or in all_docs.
C2_AsStated ==
    Classified =>
        /\ \A r \in FetchedRecords :
               ~HasParent(r) /\ HasKnownLocation(r) => OnlyInItsBucket(r)
        /\ NoChildKept

\* C2 as amended: the same for the records that pass --categories: with a
\* non-empty category list, a record of another category is in no bucket.
C2_BucketsByLocation ==
    Classified =>
        /\ \A r \in FetchedRecords :
               ~HasParent(r) /\ HasKnownLocation(r) =>
                   IF CategoryAllowed(r) THEN OnlyInItsBucket(r)
                   ELSE \A s \in Range(SectionNames) : ~InBucket(r, s)
        /\ NoChildKept

\* C2's case: with a category list given, a child and a top-level record of
\* an allowed category were fetched and the run is over.
C2_Witness ==
    /\ pc = "done"
    /\ args.categories.t = "list" /\ args.categories.v # {}
    /\ \E r, q \in FetchedRecords :
          /\ HasParent(r) /\ HasKnownLocation(r)
          /\ ~HasParent(q) /\ q.location.v = "shortlist" /\ InBucket(q, "queue")

DocFileNames(s) == {p \in DOMAIN files : p[1] = s /\ p[2] # <<"README.md">>}

\* C3: the documents of a folder get pairwise distinct file names, and the
\* folder ends up with one file per document.
C3_FilenamesDistinct ==
    /\ \A i, j \in DOMAIN doc_file : i # j => doc_file[i] # doc_file[j]
    /\ pc = "done" =>
           \A s \in Range(SectionNames) :
               Cardinality(DocFileNames(s)) = Len(sections[s])

\* Every event that is a P comes before every event that is a Q.
Before(P(_), Q(_)) ==
    \A j \in 1..Len(log) :
        Q(log[j]) => \A i \in j..Len(log) : ~P(log[i])

IsListRequest(ev) == IsRequest(ev) /\ ev.kind = "list"
IsHighlightRequest(ev) == IsRequest(ev) /\ ev.kind = "highlights"
IsClassify(ev) == ev.e = "classify"
IsRender(ev) == ev.e = "render"
IsWrite(ev) == ev.e = "write"
IsOutput(ev) == ev.e \in {"render", "write", "mkdir"}

\* The phases up to rendering: a location's pages are all fetched before its
\* records are filtered; all locations are filtered before the first
\* highlight fetch; the highlights of every document are fetched before
\* anything is rendered.
PhasesUpToRendering ==
    /\ \A j \in 1..Len(log) :
           IsClassify(log[j]) =>
               /\ Len(SelectSeq(SubSeq(log, 1, j),
                                LAMBDA ev : IsListRequest(ev) /\ ev.key = log[j].key))
                      = Len(api.list[log[j].key])
               /\ Len(ListRequests(log[j].key)) = Len(api.list[log[j].key])
    /\ Before(IsClassify, IsHighlightRequest)
    /\ (\E j \in 1..Len(log) : IsHighlightRequest(log[j])) =>
           Len(SelectSeq(log, IsClassify)) = Len(FetchOrder)
    /\ Before(IsRequest, IsOutput)
    /\ (args.with_highlights /\ \E j \in 1..Len(log) : IsOutput(log[j])) =>
           Len(HighlightRequests) = Len(all_docs)

\* C5 as stated: the phases up to rendering, and every rendering is done
\* before the first file is written.
C5_AsStated ==
    /\ PhasesUpToRendering
    /\ Before(IsRender, IsWrite)

\* C5 as amended: the phases up to rendering, and every document file and
\* index is rendered right before it is written itself, not before the first
\* write: data.json apart, each write follows the rendering of the same file.
C5_PhaseOrder ==
    /\ PhasesUpToRendering
    /\ \A j \in 1..Len(log) :
           IsWrite(log[j]) /\ log[j].key # <<"", <<"data.json">>>> =>
               j > 1 /\ IsRender(log[j - 1]) /\ log[j - 1].key = log[j].key
    /\ \A j \in 1..Len(log) :
           IsRender(log[j]) /\ j < Len(log) =>
               IsWrite(log[j + 1]) /\ log[j + 1].key = log[j].key

\* C5's case: a run with highlights over two documents, fetched over all
\* locations, has written everything.
C5_Witness ==
    /\ pc = "done"
    /\ args.with_highlights
    /\ Len(all_docs) >= 2
    /\ Len(HighlightRequests) = Len(all_docs)
    /\ Len(SelectSeq(log, IsWrite)) >= 5

AllWritten ==
    /\ \A i \in 1..Len(all_docs) :
           (\E s \in Range(SectionNames) : i \in Range(sections[s])) =>
               i \in DOMAIN doc_file /\ doc_file[i] \in DOMAIN files
    /\ \A s \in Range(SectionNames) :
           sections[s] # <<>> => <<s, <<"README.md">>>> \in DOMAIN files
    /\ <<"", <<"README.md">>>> \in DOMAIN files
    /\ <<"", <<"data.json">>>> \in DOMAIN files

\* C6: with optional fields missing or null, nothing raises: a run whose
\* requests all succeed completes with every file written.  (Runs that end
\* for want of the output directory are C9's and are left out.)
C6_ShapeLeniency ==
    Ended /\ args.token /\ ~SomeRequestFailed /\ error # "FileNotFoundError" =>
        /\ pc = "done"
        /\ error = ""
        /\ AllWritten

\* C7: with enrichment every document carries all the highlights the service
\* holds for it, each document's fetch following the one before; without it
\* no highlight is requested or attached.
C7_AllHighlightsAttached ==
    /\ Classified =>
           \A i \in 1..Len(all_docs) :
               all_docs[i]._highlights =
                   IF args.with_highlights
                   THEN [t |-> "list", v |-> Concat(HighlightPages(all_docs[i].id))]
                   ELSE Absent
    /\ ~args.with_highlights => HighlightRequests = <<>>

\* C9: a run with a token whose requests all succeed ends with status 0, the
\* output directory and one folder per non-empty bucket, README.md and
\* data.json.  (Runs that end in C6's TypeError are left out.)
C9_WriterCompletes ==
    Ended /\ args.token /\ ~SomeRequestFailed /\ error # "TypeError" =>
        /\ pc = "done"
        /\ exit_code = 0
        /\ dirs = {""} \cup {s \in Range(SectionNames) : sections[s] # <<>>}
        /\ <<"", <<"README.md">>>> \in DOMAIN files
        /\ <<"", <<"data.json">>>> \in DOMAIN files

\* C10: in a completed run, for every document a file was written for, the
\* link of its row in the README table and of its entry in its bucket's index
\* names that file.
C10_LinksNameFiles ==
    pc = "done" =>
        \A i \in DOMAIN doc_file :
            /\ IndexLink(all_docs[i]) = doc_file[i]
            /\ SectionLink(all_docs[i]) = doc_file[i][2]
====
